---- MODULE Spec2Model ----
(***************************************************************************)
(* Eclipse (StardustXR): a libinput polling thread hands normalized mouse  *)
(* and keyboard events through two bounded tokio mpsc channels to the      *)
(* per-frame handler, which forwards them to the first pulse receiver.     *)
(* Source: src/src/main.rs.                                                *)
(*                                                                         *)
(* Threads: the tokio current_thread runtime (main task and the client's   *)
(* event-loop task, which calls Eclipse::frame) and the spawn_blocking     *)
(* thread that runs the polling loop.  The channels are the only state the *)
(* two threads share.                                                      *)
(***************************************************************************)
EXTENDS Integers, Sequences, FiniteSets, TLC

\* ---------------------------------------------------------------- bounds
\* Channel capacity.  main.rs:48-49 uses 64; the model scales it down so
\* that a full channel is reached within MaxRaw raw events.
Capacity == 2
\* Number of raw events the device backend delivers in one run of the model.
MaxRaw == 3

Classes == {"mouse", "keyboard"}
\* Pulse receivers the server may register for each pulse sender: several for
\* the mouse sender, one for the keyboard sender.
Endpoints(c) == IF c = "mouse" THEN {"r1", "r2"} ELSE {"r1"}

\* Option<T>: None is the empty sequence, Some(x) the one-element sequence.
None == <<>>
Some(x) == <<x>>
\* bool::then(|| v)
Then(b, v) == IF b THEN Some(v) ELSE None

\* ------------------------------------------------------ raw libinput events
RawKey(code, st) == [kind |-> "Key", a |-> code, b |-> 0, state |-> st]
RawButton(code, st) == [kind |-> "Button", a |-> code, b |-> 0, state |-> st]
RawMotion(dx, dy) == [kind |-> "Motion", a |-> dx, b |-> dy, state |-> "-"]
RawScrollContinuous(h, v) == [kind |-> "ScrollContinuous", a |-> h, b |-> v, state |-> "-"]
RawScrollWheel(h, v) == [kind |-> "ScrollWheel", a |-> h, b |-> v, state |-> "-"]
RawOther == [kind |-> "Other", a |-> 0, b |-> 0, state |-> "-"]

\* The raw events the device may produce in the concurrent model.
RawInputs == {RawKey(30, "Pressed"), RawMotion(5, -3), RawOther}

\* ------------------------------------------------------- normalized events
\* KeyboardEvent::new(keymap, keys_up, keys_down)
KeyboardEvent(keymap, up, down) ==
    [class |-> "keyboard", keymap |-> keymap, delta |-> None,
     scroll_distance |-> None, scroll_steps |-> None,
     released |-> up, pressed |-> down]
\* MouseEvent::new(delta, scroll_distance, scroll_steps, buttons_up, buttons_down)
MouseEvent(delta, dist, steps, up, down) ==
    [class |-> "mouse", keymap |-> None, delta |-> delta,
     scroll_distance |-> dist, scroll_steps |-> steps,
     released |-> up, pressed |-> down]

RECURSIVE Gcd(_, _)
Gcd(m, n) == IF n = 0 THEN m ELSE Gcd(n, m % n)
Abs(n) == IF n < 0 THEN -n ELSE n
\* v / 120.0 as an exact fraction in lowest terms (f32 division of a small
\* integer by 120 is exact up to rounding, which the fraction stands for).
Div120(v) ==
    LET g == Gcd(120, Abs(v)) IN [num |-> v \div g, den |-> 120 \div g]

\* Variant: the state of the key or button is not tested.
NormalizeBothSets(raw) ==
    CASE raw.kind = "Key" ->
           Some(KeyboardEvent(Some("keymap"), Some(<<raw.a>>), Some(<<raw.a>>)))
      [] raw.kind = "Button" ->
           Some(MouseEvent(None, None, None, Some(<<raw.a>>), Some(<<raw.a>>)))
      [] raw.kind = "Motion" ->
           Some(MouseEvent(Some(<<raw.a, raw.b>>), None, None, None, None))
      [] raw.kind = "ScrollContinuous" ->
           Some(MouseEvent(None, Some(<<raw.a, raw.b>>), None, None, None))
      [] raw.kind = "ScrollWheel" ->
           Some(MouseEvent(None, None, Some(<<Div120(raw.a), Div120(raw.b)>>),
                           None, None))
      [] OTHER -> None

\* Variant: the match has no arm for continuous scrolling.
NormalizeNoScroll(raw) ==
    CASE raw.kind = "Key" ->
           Some(KeyboardEvent(Some("keymap"),
                              Then(raw.state = "Released", <<raw.a>>),
                              Then(raw.state = "Pressed", <<raw.a>>)))
      [] raw.kind = "Button" ->
           Some(MouseEvent(None, None, None,
                           Then(raw.state = "Released", <<raw.a>>),
                           Then(raw.state = "Pressed", <<raw.a>>)))
      [] raw.kind = "Motion" ->
           Some(MouseEvent(Some(<<raw.a, raw.b>>), None, None, None, None))
      [] raw.kind = "ScrollWheel" ->
           Some(MouseEvent(None, None, Some(<<Div120(raw.a), Div120(raw.b)>>),
                           None, None))
      [] OTHER -> None

\* The match of the polling loop: zero or one normalized event per raw event.
Normalize(raw) ==
    CASE raw.kind = "Key" ->
           Some(KeyboardEvent(Some("keymap"),
                              Then(raw.state = "Released", <<raw.a>>),
                              Then(raw.state = "Pressed", <<raw.a>>)))
      [] raw.kind = "Button" ->
           Some(MouseEvent(None, None, None,
                           Then(raw.state = "Released", <<raw.a>>),
                           Then(raw.state = "Pressed", <<raw.a>>)))
      [] raw.kind = "Motion" ->
           Some(MouseEvent(Some(<<raw.a, raw.b>>), None, None, None, None))
      [] raw.kind = "ScrollContinuous" ->
           Some(MouseEvent(None, Some(<<raw.a, raw.b>>), None, None, None))
      [] raw.kind = "ScrollWheel" ->
           Some(MouseEvent(None, None, Some(<<Div120(raw.a), Div120(raw.b)>>),
                           None, None))
      [] OTHER -> None

\* ------------------------------------------------------------------ state
VARIABLES
    mainPc,            \* position of async fn main
    result,            \* the value of `result` (line 127) / main's return value
    stop_libinput_tx,  \* the oneshot sender: "armed", "fired" (send called), "dropped"
    stop_value,        \* TRUE while a sent () waits in the oneshot channel
    ctrl_c,            \* TRUE once the interrupt signal has arrived
    event_loop,        \* the client's event-loop task: "running" or how it ended
    frame_registered,  \* wrap_root has registered Eclipse as the root handler
    receivers,         \* per class: the pulse sender's current receivers
    queue,             \* per class: the events buffered in the mpsc channel
    framePc,           \* position of Eclipse::frame: "idle", "mouse", "keyboard"
    pollPc,            \* position of the polling closure
    pollExit,          \* how the polling closure ended: "none", "cancelled", "panic_init", "panic_dispatch"
    rawCount,          \* raw events iterated so far (capped by MaxRaw)
    \* history (not program state)
    generated,         \* every normalized event built so far, in order; an event's id is its index
    delivered,         \* per class: each send_event so far, in order: the item and its receivers
    droppedFull,       \* ids whose try_send failed
    discarded,         \* ids received by frame and dropped at the `else {break}`
    frameLeft,         \* per class: channel length when the current frame began, less
                       \* the events the frame has received since (0 outside a frame)
    loopAtCtrlC        \* event_loop as it was when the interrupt arrived ("-" before)

vars == <<mainPc, result, stop_libinput_tx, stop_value, ctrl_c, event_loop,
          frame_registered, receivers, queue, framePc, pollPc, pollExit,
          rawCount, generated, delivered, droppedFull, discarded, frameLeft,
          loopAtCtrlC>>

mainVars == <<mainPc, result, stop_libinput_tx>>
envVars == <<ctrl_c, event_loop, loopAtCtrlC>>
pollVars == <<pollPc, pollExit, rawCount>>
frameHist == <<delivered, discarded, frameLeft>>
pollHist == <<generated, droppedFull>>

Zero == [c \in Classes |-> 0]

\* State at the top of main's body after Client::connect_with_async_loop
\* (line 45): nothing of Eclipse exists yet.
Init ==
    /\ mainPc = "channels"
    /\ result = "none"
    /\ stop_libinput_tx = "armed"
    /\ stop_value = FALSE
    /\ ctrl_c = FALSE
    /\ event_loop = "running"
    /\ frame_registered = FALSE
    /\ receivers = [c \in Classes |-> {}]
    /\ queue = [c \in Classes |-> <<>>]
    /\ framePc = "idle"
    /\ pollPc = "unspawned"
    /\ pollExit = "none"
    /\ rawCount = 0
    /\ generated = <<>>
    /\ delivered = [c \in Classes |-> <<>>]
    /\ droppedFull = {}
    /\ discarded = {}
    /\ frameLeft = Zero
    /\ loopAtCtrlC = "-"

\* ---------------------------------------------------------- the channels
\* Variants of try_send: the oldest buffered event gives way to the new one;
\* the new event goes to the front.
TrySendDropOldest(q, item) ==
    IF Len(q) < Capacity THEN Append(q, item) ELSE Append(Tail(q), item)
TrySendFront(q, item) == IF Len(q) < Capacity THEN <<item>> \o q ELSE q

\* tokio::sync::mpsc::Sender::try_send on a channel of the given capacity:
\* the value is appended unless no permit is left, and then it is returned in
\* Err(Full), which the caller drops (`let _ =`).
TrySend(q, item) == IF Len(q) < Capacity THEN Append(q, item) ELSE q
TrySendOk(q) == Len(q) < Capacity

\* An item of the channel: the event and its id in `generated`.
Item(id, ev) == [id |-> id, ev |-> ev]
Ids(q) == {q[i].id : i \in 1..Len(q)}
\* Variant: a send that waits for a permit.
SendReadyBlocking(q) == Len(q) < Capacity

\* try_send returns at once whatever the channel holds: the polling closure
\* never waits for a permit.
SendReady(q) == TRUE
\* A send_event call as the history records it.
Sent(item, to) == [id |-> item.id, ev |-> item.ev, to |-> to]

\* ------------------------------------------------------------ async fn main
\* Lines 46-49: the oneshot channel and the two mpsc channels.
MainChannels ==
    /\ mainPc = "channels"
    /\ mainPc' = "create"
    /\ UNCHANGED <<result, stop_libinput_tx, stop_value, envVars,
                   frame_registered, receivers, queue, framePc, pollVars,
                   pollHist, frameHist>>

\* Line 51, Eclipse::create (144-162): the two pulse senders.  Either
\* PulseSender::create fails and `?` returns the error from main, dropping
\* the oneshot sender unsent.
MainCreate ==
    /\ mainPc = "create"
    /\ \/ /\ mainPc' = "wrap_root"
          /\ UNCHANGED <<result, stop_libinput_tx>>
       \/ /\ mainPc' = "returned"
          /\ result' = "err"
          /\ stop_libinput_tx' = "dropped"
    /\ UNCHANGED <<stop_value, envVars, frame_registered, receivers, queue,
                   framePc, pollVars, pollHist, frameHist>>

\* Lines 50-51, client.wrap_root(..)?: Eclipse becomes the root handler, whose
\* frame method the event loop calls.
MainWrapRoot ==
    /\ mainPc = "wrap_root"
    /\ \/ /\ mainPc' = "spawn"
          /\ frame_registered' = TRUE
          /\ UNCHANGED <<result, stop_libinput_tx>>
       \/ /\ mainPc' = "returned"
          /\ result' = "err"
          /\ stop_libinput_tx' = "dropped"
          /\ UNCHANGED frame_registered
    /\ UNCHANGED <<stop_value, envVars, receivers, queue, framePc, pollVars,
                   pollHist, frameHist>>

\* Variant: main goes on to the select without starting the closure.
MainSpawnMissing ==
    /\ mainPc = "spawn"
    /\ mainPc' = "select"
    /\ UNCHANGED <<result, stop_libinput_tx, stop_value, envVars,
                   frame_registered, receivers, queue, framePc, pollVars,
                   pollHist, frameHist>>

\* Line 53: tokio::task::spawn_blocking starts the polling closure on its own
\* thread; its JoinHandle is dropped.
MainSpawn ==
    /\ mainPc = "spawn"
    /\ mainPc' = "select"
    /\ pollPc' = "assign_seat"
    /\ UNCHANGED <<result, stop_libinput_tx, stop_value, envVars,
                   frame_registered, receivers, queue, framePc, pollExit,
                   rawCount, pollHist, frameHist>>

\* The outcome of the biased select (127-131): ctrl_c is polled first; the
\* event loop's JoinHandle yields Result<Result<(), MessengerError>, JoinError>.
\* "return_err" is `e?` leaving main from inside the handler.
SelectOutcome(cc, el) ==
    IF cc THEN "ok"
    ELSE CASE el = "ok" -> "ok"
           [] el = "messenger_err" -> "err"
           [] el = "join_err" -> "return_err"

\* Lines 127-131.  main is polled on the runtime's single thread, hence not
\* while a frame callback runs.
MainSelect ==
    /\ mainPc = "select"
    /\ framePc = "idle"
    /\ ctrl_c \/ event_loop # "running"
    /\ LET o == SelectOutcome(ctrl_c, event_loop) IN
         IF o = "return_err"
         THEN /\ mainPc' = "returned"
              /\ result' = "err"
              /\ stop_libinput_tx' = "dropped"
         ELSE /\ mainPc' = "send"
              /\ result' = o
              /\ UNCHANGED stop_libinput_tx
    /\ UNCHANGED <<stop_value, envVars, frame_registered, receivers, queue,
                   framePc, pollVars, pollHist, frameHist>>

\* The oneshot receiver lives in the polling closure from the spawn until the
\* closure returns or unwinds.
RxAlive(pc) == pc # "stopped"

\* Line 132: `let _ = stop_libinput_tx.send(())`.  The value is stored only
\* while the receiver exists; otherwise send returns Err, which is ignored.
MainSend ==
    /\ mainPc = "send"
    /\ mainPc' = "return"
    /\ stop_libinput_tx' = "fired"
    /\ stop_value' = RxAlive(pollPc)
    /\ UNCHANGED <<result, envVars, frame_registered, receivers, queue,
                   framePc, pollVars, pollHist, frameHist>>

\* Line 134.
MainReturn ==
    /\ mainPc = "return"
    /\ mainPc' = "returned"
    /\ UNCHANGED <<result, stop_libinput_tx, stop_value, envVars,
                   frame_registered, receivers, queue, framePc, pollVars,
                   pollHist, frameHist>>

\* ------------------------------------------------- what main's select awaits
\* tokio::signal::ctrl_c() (129) becomes ready.
CtrlC ==
    /\ mainPc = "select"
    /\ ~ctrl_c
    /\ ctrl_c' = TRUE
    /\ loopAtCtrlC' = event_loop
    /\ UNCHANGED <<mainVars, stop_value, event_loop, frame_registered,
                   receivers, queue, framePc, pollVars, pollHist, frameHist>>

\* The event-loop task (130) finishes: Ok, a messenger error, or a JoinError.
EventLoopEnd ==
    /\ mainPc = "select"
    /\ event_loop = "running"
    /\ framePc = "idle"
    /\ event_loop' \in {"ok", "messenger_err", "join_err"}
    /\ UNCHANGED <<mainVars, stop_value, ctrl_c, loopAtCtrlC, frame_registered,
                   receivers, queue, framePc, pollVars, pollHist, frameHist>>

\* Variant: a multi-thread runtime, where the task runs while main goes on.
EventLoopRunsDetached == event_loop = "running" /\ mainPc # "returned"

\* The event-loop task runs only while main awaits in the select.
EventLoopRuns == mainPc = "select" /\ event_loop = "running"

\* DummyHandler::new_receiver (184-190): the pulse sender's receiver map gains
\* an entry; the handler itself does nothing.
NewReceiver ==
    /\ EventLoopRuns
    /\ framePc = "idle"
    /\ \E c \in Classes : \E r \in Endpoints(c) \ receivers[c] :
         receivers' = [receivers EXCEPT ![c] = @ \cup {r}]
    /\ UNCHANGED <<mainVars, stop_value, envVars, frame_registered, queue,
                   framePc, pollVars, pollHist, frameHist>>

\* DummyHandler::drop_receiver (192).
DropReceiver ==
    /\ EventLoopRuns
    /\ framePc = "idle"
    /\ \E c \in Classes : \E r \in receivers[c] :
         receivers' = [receivers EXCEPT ![c] = @ \ {r}]
    /\ UNCHANGED <<mainVars, stop_value, envVars, frame_registered, queue,
                   framePc, pollVars, pollHist, frameHist>>

\* ------------------------------------------------------- Eclipse::frame
\* Entry of frame (165).
FrameBegin ==
    /\ EventLoopRuns
    /\ frame_registered
    /\ framePc = "idle"
    /\ framePc' = "mouse"
    /\ frameLeft' = [c \in Classes |-> Len(queue[c])]
    /\ UNCHANGED <<mainVars, stop_value, envVars, frame_registered, receivers,
                   queue, pollVars, pollHist, delivered, discarded>>

\* Variant: nth(1), which a single receiver does not satisfy.
FirstReceiversNth1(rs) == IF Cardinality(rs) >= 2 THEN rs ELSE {}

\* receivers.values().nth(0): the first entry in the hash map's iteration
\* order, which is unspecified; any current receiver may be it.
FirstReceivers(rs) == rs

\* Variant: send_event to every current receiver.
SendTargetsAll(r, rs) == rs

\* The receivers one send_event call addresses: the slice &[receiver].
SendTargets(r, rs) == {r}

\* Variant: without a receiver frame returns instead of leaving the loop.
FrameDrainReturns(c, next) ==
    /\ framePc = c
    /\ IF queue[c] = <<>>
       THEN /\ framePc' = next
            /\ frameLeft' = IF next = "idle" THEN Zero ELSE frameLeft
            /\ UNCHANGED <<queue, delivered, discarded>>
       ELSE LET item == Head(queue[c])
                left == [frameLeft EXCEPT ![c] = @ - 1]
            IN
            /\ queue' = [queue EXCEPT ![c] = Tail(@)]
            /\ IF FirstReceivers(receivers[c]) = {}
               THEN /\ framePc' = "idle"
                    /\ discarded' = discarded \cup {item.id}
                    /\ frameLeft' = Zero
                    /\ UNCHANGED delivered
               ELSE /\ \E r \in FirstReceivers(receivers[c]) :
                         delivered' = [delivered EXCEPT ![c] =
                                          Append(@, Sent(item, SendTargets(r, receivers[c])))]
                    /\ frameLeft' = left
                    /\ UNCHANGED <<framePc, discarded>>
    /\ UNCHANGED <<mainVars, stop_value, envVars, frame_registered, receivers,
                   pollVars, pollHist>>

\* Variant: without a receiver the event is dropped and the loop goes on.
FrameDrainKeepsOn(c, next) ==
    /\ framePc = c
    /\ IF queue[c] = <<>>
       THEN /\ framePc' = next
            /\ frameLeft' = IF next = "idle" THEN Zero ELSE frameLeft
            /\ UNCHANGED <<queue, delivered, discarded>>
       ELSE LET item == Head(queue[c])
                left == [frameLeft EXCEPT ![c] = @ - 1]
            IN
            /\ queue' = [queue EXCEPT ![c] = Tail(@)]
            /\ frameLeft' = left
            /\ IF FirstReceivers(receivers[c]) = {}
               THEN /\ discarded' = discarded \cup {item.id}
                    /\ UNCHANGED <<framePc, delivered>>
               ELSE /\ \E r \in FirstReceivers(receivers[c]) :
                         delivered' = [delivered EXCEPT ![c] =
                                          Append(@, Sent(item, SendTargets(r, receivers[c])))]
                    /\ UNCHANGED <<framePc, discarded>>
    /\ UNCHANGED <<mainVars, stop_value, envVars, frame_registered, receivers,
                   pollVars, pollHist>>

\* One turn of `while let Ok(ev) = rx.try_recv()` for class c (166-171 with
\* next = "keyboard", 172-178 with next = "idle").  try_recv is the only step
\* that touches shared state; the receiver lookup and send_event are local to
\* the runtime thread, so the turn is one step.
FrameDrain(c, next) ==
    /\ framePc = c
    /\ IF queue[c] = <<>>
       THEN \* try_recv returns Err: the loop ends
            /\ framePc' = next
            /\ frameLeft' = IF next = "idle" THEN Zero ELSE frameLeft
            /\ UNCHANGED <<queue, delivered, discarded>>
       ELSE LET item == Head(queue[c])
                left == [frameLeft EXCEPT ![c] = @ - 1]
            IN
            /\ queue' = [queue EXCEPT ![c] = Tail(@)]
            /\ IF FirstReceivers(receivers[c]) = {}
               THEN \* else {break}: the received event is dropped
                    /\ framePc' = next
                    /\ discarded' = discarded \cup {item.id}
                    /\ frameLeft' = IF next = "idle" THEN Zero ELSE left
                    /\ UNCHANGED delivered
               ELSE \* send_event(node, &[receiver])
                    /\ \E r \in FirstReceivers(receivers[c]) :
                         delivered' = [delivered EXCEPT ![c] =
                                          Append(@, Sent(item, SendTargets(r, receivers[c])))]
                    /\ frameLeft' = left
                    /\ UNCHANGED <<framePc, discarded>>
    /\ UNCHANGED <<mainVars, stop_value, envVars, frame_registered, receivers,
                   pollVars, pollHist>>

FrameMouse == FrameDrain("mouse", "keyboard")
FrameKeyboard == FrameDrain("keyboard", "idle")

\* ------------------------------------------------------ the polling closure
\* Lines 54-55: Libinput::new_with_udev, udev_assign_seat("seat0").unwrap().
PollAssignSeat ==
    /\ pollPc = "assign_seat"
    /\ \/ pollPc' = "keymap" /\ UNCHANGED pollExit
       \/ pollPc' = "stopped" /\ pollExit' = "panic_init"
    /\ UNCHANGED <<mainVars, stop_value, envVars, frame_registered, receivers,
                   queue, framePc, rawCount, pollHist, frameHist>>

\* Lines 56-57: Keymap::new_from_names(..).unwrap().
PollKeymap ==
    /\ pollPc = "keymap"
    /\ \/ pollPc' = "check" /\ UNCHANGED pollExit
       \/ pollPc' = "stopped" /\ pollExit' = "panic_init"
    /\ UNCHANGED <<mainVars, stop_value, envVars, frame_registered, receivers,
                   queue, framePc, rawCount, pollHist, frameHist>>

\* Variant: is_err() for is_ok().
TryRecvStopIsErr(value) == ~value

\* tokio oneshot Receiver::try_recv: Ok(()) exactly when a value was sent and
\* not yet taken; Err(Empty) or Err(Closed) otherwise.
TryRecvStop(value) == value

\* Variant: a fired signal is noted but the iteration under way is finished.
PollCheckStopLate ==
    /\ pollPc = "check"
    /\ pollPc' = "dispatch"
    /\ IF stop_value
       THEN pollExit' = "cancelled" /\ stop_value' = FALSE
       ELSE UNCHANGED <<pollExit, stop_value>>
    /\ UNCHANGED <<mainVars, envVars, frame_registered, receivers, queue,
                   framePc, rawCount, pollHist, frameHist>>

\* Variant: the value is taken but the loop does not return on it.
PollCheckStopGoesOn ==
    /\ pollPc = "check"
    /\ pollPc' = "dispatch"
    /\ stop_value' = FALSE
    /\ UNCHANGED <<mainVars, envVars, frame_registered, receivers, queue,
                   framePc, pollExit, rawCount, pollHist, frameHist>>

\* Lines 59-61.
PollCheckStop ==
    /\ pollPc = "check"
    /\ IF TryRecvStop(stop_value)
       THEN /\ pollPc' = "stopped"
            /\ pollExit' = "cancelled"
            /\ stop_value' = FALSE
       ELSE /\ pollPc' = "dispatch"
            /\ UNCHANGED <<pollExit, stop_value>>
    /\ UNCHANGED <<mainVars, envVars, frame_registered, receivers, queue,
                   framePc, rawCount, pollHist, frameHist>>

\* Variant: the dispatch error is noted but the loop goes on.
PollDispatchGoesOn ==
    /\ pollPc = "dispatch"
    /\ \/ pollPc' = "events" /\ UNCHANGED pollExit
       \/ pollPc' = "events" /\ pollExit' = "panic_dispatch"
    /\ UNCHANGED <<mainVars, stop_value, envVars, frame_registered, receivers,
                   queue, framePc, rawCount, pollHist, frameHist>>

\* Line 62: input.dispatch().unwrap() reads what the devices have ready into
\* libinput's queue, or fails and the closure panics.
PollDispatch ==
    /\ pollPc = "dispatch"
    /\ \/ pollPc' = "events" /\ UNCHANGED pollExit
       \/ pollPc' = "stopped" /\ pollExit' = "panic_dispatch"
    /\ UNCHANGED <<mainVars, stop_value, envVars, frame_registered, receivers,
                   queue, framePc, rawCount, pollHist, frameHist>>

\* Lines 63-123, one turn of `for event in &mut input`: the next raw event that
\* dispatch() read is matched, and the normalized event, if any, is offered to
\* its channel.  How many events dispatch() read shows only here, in how many
\* turns the loop takes.
PollEventOf(raw) ==
    /\ pollPc = "events"
    /\ rawCount < MaxRaw
    /\ rawCount' = rawCount + 1
    /\ LET n == Normalize(raw) IN
       IF n = None
       THEN UNCHANGED <<queue, generated, droppedFull>>
       ELSE LET ev == n[1]
                id == Len(generated) + 1
            IN /\ SendReady(queue[ev.class])
               /\ generated' = Append(generated, ev)
               /\ queue' = [queue EXCEPT ![ev.class] = TrySend(@, Item(id, ev))]
               /\ droppedFull' = IF TrySendOk(queue[ev.class])
                                 THEN droppedFull
                                 ELSE droppedFull \cup {id}
    /\ UNCHANGED <<mainVars, stop_value, envVars, frame_registered, receivers,
                   framePc, pollPc, pollExit, frameHist>>

PollEvent == \E raw \in RawInputs : PollEventOf(raw)

\* The iterator is exhausted: back to the top of `loop` (58).
PollEventsDone ==
    /\ pollPc = "events"
    /\ pollPc' = "check"
    /\ UNCHANGED <<mainVars, stop_value, envVars, frame_registered, receivers,
                   queue, framePc, pollExit, rawCount, pollHist, frameHist>>

MainNext ==
    \/ MainChannels \/ MainCreate \/ MainWrapRoot \/ MainSpawn
    \/ MainSelect \/ MainSend \/ MainReturn

EnvNext == CtrlC \/ EventLoopEnd \/ NewReceiver \/ DropReceiver

FrameNext == FrameBegin \/ FrameMouse \/ FrameKeyboard

PollNext ==
    \/ PollAssignSeat \/ PollKeymap \/ PollCheckStop \/ PollDispatch
    \/ PollEvent \/ PollEventsDone

Next == MainNext \/ EnvNext \/ FrameNext \/ PollNext

Spec == Init /\ [][Next]_vars

\* The polling closure runs on its own OS thread and none of its steps waits
\* for another thread, so it keeps taking steps until it has ended.
FairSpec == Spec /\ WF_vars(PollNext)


\* ================================================================ properties
DeliveredIds(c) == {delivered[c][i].id : i \in 1..Len(delivered[c])}
GeneratedIds(c) == {i \in 1..Len(generated) : generated[i].class = c}
Full(c) == Len(queue[c]) = Capacity
PollStopped == pollPc = "stopped"
Fired == stop_libinput_tx = "fired"

\* C1: a channel never holds more than Capacity events, and a try_send on a
\* full channel drops exactly the new event: the buffered events stay as they
\* are, in order, and the new id is the one recorded as dropped; on a channel
\* that is not full the new event is appended.
C1_BoundedDropNewest ==
    /\ [](\A c \in Classes : Len(queue[c]) <= Capacity)
    /\ [][Len(generated') = Len(generated) + 1 =>
            LET id == Len(generated')
                ev == generated'[id]
                c == ev.class
            IN IF Full(c)
               THEN queue' = queue /\ droppedFull' = droppedFull \cup {id}
               ELSE /\ queue' = [queue EXCEPT ![c] = Append(@, Item(id, ev))]
                    /\ droppedFull' = droppedFull]_vars

\* A full channel has turned away an event of its class.
C1_Witness ==
    \E c \in Classes :
        /\ Full(c)
        /\ \E id \in droppedFull : generated[id].class = c /\ id \notin Ids(queue[c])
        /\ \A i \in 1..Len(queue[c]) : queue[c][i].id < Capacity + 1

\* C2: per class, the events sent to receivers are, in order, a subsequence
\* of the events the polling loop generated for that class: each is the
\* generated event of its id, and the ids strictly increase.
C2_DeliveredIsSubsequence ==
    \A c \in Classes :
        /\ \A i \in 1..Len(delivered[c]) :
              /\ delivered[c][i].id \in GeneratedIds(c)
              /\ delivered[c][i].ev = generated[delivered[c][i].id]
        /\ \A i, j \in 1..Len(delivered[c]) :
              i < j => delivered[c][i].id < delivered[c][j].id

\* Two events of one class have been delivered, with an event of the other
\* class generated between them.
C2_Witness ==
    \E c \in Classes :
        /\ Len(delivered[c]) >= 2
        /\ \E k \in 1..Len(generated) :
              /\ generated[k].class # c
              /\ delivered[c][1].id < k
              /\ k < delivered[c][2].id

\* C3: while exactly one receiver r is registered for a class, every event a
\* frame takes from that class's channel is the channel's head, is sent to r
\* and to r only, and is not discarded; no event is ever sent twice.
C3_SingleSubscriberDelivery ==
    /\ [](\A c \in Classes : \A i, j \in 1..Len(delivered[c]) :
              delivered[c][i].id = delivered[c][j].id => i = j)
    /\ [][\A c \in Classes : \A r \in Endpoints(c) :
             (receivers[c] = {r} /\ Len(queue'[c]) < Len(queue[c])) =>
                /\ queue'[c] = Tail(queue[c])
                /\ delivered'[c] = Append(delivered[c], Sent(Head(queue[c]), {r}))
                /\ discarded' = discarded]_vars

\* A frame with the single keyboard receiver r1 has sent two events and
\* emptied the channel, and nothing was ever discarded.
C3_Witness ==
    /\ framePc = "keyboard"
    /\ receivers["keyboard"] = {"r1"}
    /\ Len(delivered["keyboard"]) = 2
    /\ frameLeft["keyboard"] = 0
    /\ queue["keyboard"] = <<>>
    /\ discarded = {}

\* C4: when the drain of a class ends in a frame that found no receiver for
\* the class, every event the channel held when the frame began has been
\* taken from it (drained and discarded, none kept for a later frame).
C4_DrainedWhenNoSubscriber ==
    [][\A c \in Classes :
          (framePc = c /\ framePc' # c /\ receivers[c] = {}) =>
              frameLeft[c] - (Len(queue[c]) - Len(queue'[c])) <= 0]_vars

\* The places an event can be in.
Places(id, c) ==
    (IF id \in droppedFull THEN 1 ELSE 0)
    + Cardinality({i \in 1..Len(queue[c]) : queue[c][i].id = id})
    + (IF id \in discarded THEN 1 ELSE 0)
    + Cardinality({i \in 1..Len(delivered[c]) : delivered[c][i].id = id})
OtherClass(c) == IF c = "mouse" THEN "keyboard" ELSE "mouse"

\* C5: every generated event is in exactly one place (dropped on a full
\* channel, buffered in its class's channel, taken by frame and discarded for
\* want of a receiver, or taken by frame and sent), never in the other class's
\* channel or history, and every send went to exactly one receiver.
C5_Conservation ==
    /\ \A id \in 1..Len(generated) :
          LET c == generated[id].class IN
          /\ Places(id, c) = 1
          /\ id \notin Ids(queue[OtherClass(c)])
          /\ id \notin DeliveredIds(OtherClass(c))
    /\ \A c \in Classes : \A i \in 1..Len(delivered[c]) :
          Cardinality(delivered[c][i].to) = 1
    /\ droppedFull \cup discarded \subseteq 1..Len(generated)
    /\ \A c \in Classes : Ids(queue[c]) \cup DeliveredIds(c) \subseteq 1..Len(generated)

\* With two mouse receivers registered an event has been sent, another was
\* discarded and another dropped.
C5_Witness ==
    /\ Cardinality(receivers["mouse"]) = 2
    /\ delivered["mouse"] # <<>>
    /\ discarded # {}
    /\ droppedFull # {}

\* C6: once send(()) has been called the polling closure ends, and its next
\* check at the top of the loop ends it there: no dispatch follows a check
\* made after the send, so only the iteration under way at the send goes on.
C6_StopsAfterFired ==
    /\ Fired ~> PollStopped
    /\ [][(Fired /\ pollPc = "check" /\ pollPc' # "check") =>
             (pollPc' = "stopped" /\ pollExit' = "cancelled")]_vars

\* The signal was fired in the middle of an iteration, which goes on.
C6_Witness ==
    /\ Fired
    /\ stop_value
    /\ pollPc = "events"
    /\ rawCount > 0
    /\ rawCount < MaxRaw

\* C7: when main has returned after running the host loop (the polling
\* closure was spawned), send(()) has been called.
C7_FiredBeforeReturn ==
    (mainPc = "returned" /\ pollPc # "unspawned") => Fired

\* C8: the polling loop never waits for the frame side: the turn of the event
\* loop is enabled for every raw event whatever the channels hold, a full
\* channel never makes the closure panic, and with a channel full and the
\* signal fired the closure still ends, frames or no frames.
C8_NeverWaitsOnConsumer ==
    /\ [](\A raw \in RawInputs :
             (pollPc = "events" /\ rawCount < MaxRaw) => ENABLED PollEventOf(raw))
    /\ [][pollPc = "events" => pollPc' \in {"events", "check"}]_vars
    /\ \A c \in Classes : (Full(c) /\ Fired) ~> PollStopped

\* An event was dropped on a full channel and, the channel still full, the
\* closure went on to the next check, found the signal and ended.
C8_Witness ==
    \E c \in Classes :
        /\ Full(c)
        /\ \E id \in droppedFull : generated[id].class = c
        /\ pollExit = "cancelled"
        /\ rawCount = MaxRaw

\* C9: a frame takes from a channel at most as many events as the channel
\* held when the frame began.
C9_FrameBoundedByStart ==
    \A c \in Classes : frameLeft[c] >= 0

\* C10: after a panic in the closure's initialisation no frame begins and
\* main does not return success.
C10_InitFailureAborts ==
    [][pollExit = "panic_init" =>
          /\ (framePc = "idle" => framePc' = "idle")
          /\ (mainPc' = "returned" => result' = "err")]_vars

\* A step of frame: one that changes what frame owns.
FrameStep == <<framePc, queue, frameHist>>' # <<framePc, queue, frameHist>>
DispatchFailed == pollExit = "panic_dispatch"

\* C11: after input.dispatch() has failed only the polling closure is gone:
\* frame can still begin and take its turns, each turn on a non-empty channel
\* takes the head (sent when a receiver exists, discarded otherwise), and
\* nothing is generated or enqueued any more.
C11_DispatchFailureIsolated ==
    /\ []((DispatchFailed /\ EventLoopRuns /\ framePc = "idle") => ENABLED FrameBegin)
    /\ []((DispatchFailed /\ framePc = "mouse") => ENABLED FrameMouse)
    /\ []((DispatchFailed /\ framePc = "keyboard") => ENABLED FrameKeyboard)
    /\ [][DispatchFailed =>
            /\ pollPc' = "stopped"
            /\ generated' = generated
            /\ droppedFull' = droppedFull
            /\ \A c \in Classes :
                  /\ queue'[c] = queue[c] \/ queue'[c] = Tail(queue[c])
                  /\ (framePc = c /\ queue[c] # <<>> /\ FrameStep) =>
                        /\ queue'[c] = Tail(queue[c])
                        /\ IF receivers[c] = {}
                           THEN discarded' = discarded \cup {Head(queue[c]).id}
                           ELSE \E r \in receivers[c] :
                                  delivered'[c] =
                                      Append(delivered[c], Sent(Head(queue[c]), {r}))]_vars

\* After the failure a frame has sent one of two buffered mouse events and
\* the other is still in the channel for its next turn.
C11_Witness ==
    /\ DispatchFailed
    /\ framePc = "mouse"
    /\ frameLeft["mouse"] = 1
    /\ Len(queue["mouse"]) = 1
    /\ Len(delivered["mouse"]) = 1
    /\ discarded = {}
    /\ droppedFull = {}

\* C12: stop_libinput_tx is used once: it leaves "armed" for good, "fired" is
\* entered only from "armed" and never left; while the closure runs after the
\* send, try_recv on its receiver gives Ok; and the closure, once ended, stays
\* ended.
C12_OneShot ==
    /\ [][stop_libinput_tx' = "armed" => stop_libinput_tx = "armed"]_vars
    /\ [][stop_libinput_tx' = "fired" => stop_libinput_tx \in {"armed", "fired"}]_vars
    /\ [][Fired => Fired']_vars
    /\ [](Fired /\ ~PollStopped => TryRecvStop(stop_value))
    /\ [][PollStopped => PollStopped' /\ pollExit' = pollExit]_vars

\* The closure returned on the fired signal and main has returned since.
C12_Witness ==
    /\ Fired
    /\ pollPc = "stopped"
    /\ pollExit = "cancelled"
    /\ ~stop_value
    /\ mainPc = "returned"

\* ------------------------------------------- the match of the polling loop
\* The `for event in &mut input` loop alone (lines 63-123), fed with every kind
\* of raw event: the closure has just dispatched, nothing is buffered yet, and
\* no frame runs meanwhile.
NormInputs ==
    {RawKey(30, "Pressed"), RawKey(30, "Released"),
     RawButton(272, "Pressed"), RawButton(272, "Released"),
     RawMotion(5, -3), RawScrollContinuous(15, 0), RawScrollWheel(120, -240),
     RawOther}

NormInit ==
    /\ mainPc = "select"
    /\ result = "none"
    /\ stop_libinput_tx = "armed"
    /\ stop_value = FALSE
    /\ ctrl_c = FALSE
    /\ event_loop = "running"
    /\ frame_registered = TRUE
    /\ receivers = [c \in Classes |-> {}]
    /\ queue = [c \in Classes |-> <<>>]
    /\ framePc = "idle"
    /\ pollPc = "events"
    /\ pollExit = "none"
    /\ rawCount = 0
    /\ generated = <<>>
    /\ delivered = [c \in Classes |-> <<>>]
    /\ droppedFull = {}
    /\ discarded = {}
    /\ frameLeft = Zero
    /\ loopAtCtrlC = "-"

NormNext == \E raw \in NormInputs : PollEventOf(raw)

NormSpec == NormInit /\ [][NormNext]_vars

\* The event built last.
LastGenerated == generated[Len(generated)]

\* C13: a raw key or button change builds exactly one event, of the keyboard
\* resp. mouse type, with the code alone in `pressed` and `released` absent
\* for a press, the other way round for a release, and no motion or scroll
\* field; a press and the release that follows it for the same code therefore
\* share no content.
C13_PressedReleasedSets ==
    /\ [][\A raw \in NormInputs :
            (PollEventOf(raw) /\ raw.kind \in {"Key", "Button"}) =>
                /\ Len(generated') = Len(generated) + 1
                /\ LastGenerated'.class =
                       (IF raw.kind = "Key" THEN "keyboard" ELSE "mouse")
                /\ raw.state = "Pressed" =>
                       /\ LastGenerated'.pressed = Some(<<raw.a>>)
                       /\ LastGenerated'.released = None
                /\ raw.state = "Released" =>
                       /\ LastGenerated'.released = Some(<<raw.a>>)
                       /\ LastGenerated'.pressed = None
                /\ LastGenerated'.delta = None
                /\ LastGenerated'.scroll_distance = None
                /\ LastGenerated'.scroll_steps = None]_vars
    /\ [](\A i \in 1..(Len(generated) - 1) :
            (/\ generated[i].class = generated[i + 1].class
             /\ generated[i].pressed # None
             /\ generated[i].pressed = generated[i + 1].released) =>
                /\ generated[i].released = None
                /\ generated[i + 1].pressed = None)

\* Key 30 was pressed and then released, and so was button 272 before or after.
C13_Witness ==
    /\ \E i \in 1..(Len(generated) - 1) :
          /\ generated[i].class = "keyboard"
          /\ generated[i].pressed = <<<<30>>>>
          /\ generated[i + 1].class = "keyboard"
          /\ generated[i + 1].released = <<<<30>>>>
    /\ \E i \in 1..Len(generated) :
          /\ generated[i].class = "mouse"
          /\ generated[i].pressed = <<<<272>>>>

\* The normalized events of class c in `generated`, as channel items.
RECURSIVE ItemsOfClass(_, _)
ItemsOfClass(c, n) ==
    IF n = 0 THEN <<>>
    ELSE IF generated[n].class = c
         THEN Append(ItemsOfClass(c, n - 1), Item(n, generated[n]))
         ELSE ItemsOfClass(c, n - 1)

\* The channel a raw event's arm sends to, if any.
RouteOf(raw) ==
    CASE raw.kind = "Key" -> Some("keyboard")
      [] raw.kind \in {"Button", "Motion", "ScrollContinuous", "ScrollWheel"} ->
           Some("mouse")
      [] OTHER -> None

\* C14: while no try_send has found its channel full, a raw key event is
\* appended to the keyboard channel only, a raw button, motion or scroll event
\* to the mouse channel only, and any other raw event changes neither channel;
\* so each channel holds its class's events in the order they arrived.
C14_RoutedInOrder ==
    /\ [][\A raw \in NormInputs :
            (PollEventOf(raw) /\ \A c \in Classes : ~Full(c)) =>
                IF RouteOf(raw) = None
                THEN queue' = queue /\ generated' = generated
                ELSE LET c == RouteOf(raw)[1] IN
                     /\ Len(queue'[c]) = Len(queue[c]) + 1
                     /\ SubSeq(queue'[c], 1, Len(queue[c])) = queue[c]
                     /\ queue'[c][Len(queue'[c])].id = Len(generated')
                     /\ queue'[c][Len(queue'[c])].ev.class = c
                     /\ queue'[OtherClass(c)] = queue[OtherClass(c)]]_vars
    /\ [](droppedFull = {} =>
            \A c \in Classes : queue[c] = ItemsOfClass(c, Len(generated)))

\* key-press(30), pointer-motion(5,-3), key-release(30) have arrived in that
\* order and the channels hold what the claim's example says.
C14_Witness ==
    /\ rawCount = 3
    /\ Len(queue["keyboard"]) = 2
    /\ queue["keyboard"][1].id = 1
    /\ queue["keyboard"][1].ev.pressed = <<<<30>>>>
    /\ queue["keyboard"][1].ev.released = <<>>
    /\ queue["keyboard"][2].id = 3
    /\ queue["keyboard"][2].ev.released = <<<<30>>>>
    /\ queue["keyboard"][2].ev.pressed = <<>>
    /\ Len(queue["mouse"]) = 1
    /\ queue["mouse"][1].id = 2
    /\ queue["mouse"][1].ev.delta = <<<<5, -3>>>>

\* A turn of frame's loop for class c (the polling closure may send meanwhile,
\* which changes neither framePc nor frame's history).
FrameTurn(c) == framePc = c /\ <<framePc, frameHist>>' # <<framePc, frameHist>>

\* C15: a turn of frame's loop that finds the channel of class c non-empty
\* and no receiver for c takes the head off the channel and drops it, sends
\* nothing, leaves the rest of the channel as it was, and ends the loop for
\* c, to which the same frame does not come back.
C15_NoReceiverDropsHead ==
    /\ [][\A c \in Classes :
            (FrameTurn(c) /\ queue[c] # <<>> /\ receivers[c] = {}) =>
                /\ queue'[c] = Tail(queue[c])
                /\ discarded' = discarded \cup {Head(queue[c]).id}
                /\ delivered' = delivered
                /\ queue'[OtherClass(c)] = queue[OtherClass(c)]
                /\ framePc' # c]_vars
    /\ [][framePc = "keyboard" => framePc' # "mouse"]_vars
    /\ [][framePc = "mouse" => framePc' # "idle"]_vars

\* A frame has ended the mouse loop on a dropped head while another mouse
\* event stays in the channel.
C15_Witness ==
    /\ framePc = "keyboard"
    /\ receivers["mouse"] = {}
    /\ frameLeft["mouse"] = 1
    /\ Len(queue["mouse"]) = 1
    /\ discarded # {}
    /\ \A id \in discarded : id < queue["mouse"][1].id /\ generated[id].class = "mouse"

\* C16: the check that finds the signal fired ends the closure in that very
\* step, without a dispatch, a normalization or a send, whatever the device
\* still has to give; and once the closure has ended nothing is built or
\* sent any more, so a channel can only lose its head.
C16_StopEndsProduction ==
    /\ [][(pollPc = "check" /\ TryRecvStop(stop_value) /\ pollPc' # pollPc) =>
             /\ pollPc' = "stopped"
             /\ pollExit' = "cancelled"
             /\ rawCount' = rawCount
             /\ generated' = generated
             /\ queue' = queue]_vars
    /\ [][PollStopped =>
             /\ PollStopped'
             /\ rawCount' = rawCount
             /\ generated' = generated
             /\ droppedFull' = droppedFull
             /\ \A c \in Classes :
                   queue'[c] = queue[c] \/ queue'[c] = Tail(queue[c])]_vars

\* The closure returned on the signal although the device had more to give,
\* with an event left in a channel.
C16_Witness ==
    /\ pollExit = "cancelled"
    /\ pollPc = "stopped"
    /\ rawCount = 1
    /\ rawCount < MaxRaw
    /\ \E c \in Classes : Len(queue[c]) = 1

\* C17: send(()) is called once, by main after its select, when no frame is
\* under way; from then on frame neither begins nor takes a turn, also when
\* it was the interrupt that ended the select with the event loop still alive.
C17_NoFrameAfterFired ==
    /\ [][(~Fired /\ Fired') => (mainPc = "send" /\ framePc = "idle")]_vars
    /\ [](Fired => framePc = "idle" /\ ~ENABLED FrameBegin)
    /\ [][Fired => UNCHANGED <<framePc, frameHist, receivers>>]_vars

\* Shutdown by the interrupt: the signal is fired, the event loop had not
\* ended, and frame had sent an event before.
C17_Witness ==
    /\ Fired
    /\ ctrl_c
    /\ event_loop = "running"
    /\ result = "ok"
    /\ \E c \in Classes : delivered[c] # <<>> /\ queue[c] # <<>>

\* The polling closure has been spawned.
Spawned == pollPc # "unspawned"

LoopFailed == event_loop \in {"messenger_err", "join_err"}

\* C19: when main has returned from its select, an event loop that ended
\* with an error made main return an error, unless the loop was still running
\* when the interrupt arrived; and main returned Ok only if the loop ended
\* with Ok or was still running when the interrupt arrived.
C19_LoopResultReturned ==
    (mainPc = "returned" /\ Spawned) =>
        /\ (LoopFailed /\ loopAtCtrlC # "running") => result = "err"
        /\ result = "ok" => (event_loop = "ok" \/ loopAtCtrlC = "running")

\* The ids of class c among a set of ids of generated events.
IdsOfClass(ids, c) == {id \in ids : generated[id].class = c}

\* C20: a turn of frame's loop for one class leaves the other class's
\* channel, sends and drops as they were; the mouse loop, however it ends, is
\* followed by the keyboard loop in the same frame; and with a keyboard
\* receiver registered the keyboard loop sends every event it takes and ends
\* only on an empty channel, so every keyboard event buffered when the
\* frame began has been sent.
C20_ClassesIndependent ==
    /\ [][\A c \in Classes :
            FrameTurn(c) =>
                /\ queue'[OtherClass(c)] = queue[OtherClass(c)]
                /\ delivered'[OtherClass(c)] = delivered[OtherClass(c)]
                /\ IdsOfClass(discarded', OtherClass(c)) =
                       IdsOfClass(discarded, OtherClass(c))
                /\ \A i \in 1..Len(delivered'[c]) :
                       delivered'[c][i].ev.class = c]_vars
    /\ [][(framePc = "mouse" /\ framePc' # "mouse") => framePc' = "keyboard"]_vars
    /\ [][(FrameTurn("keyboard") /\ receivers["keyboard"] # {}) =>
             IF queue["keyboard"] = <<>>
             THEN framePc' = "idle" /\ frameLeft["keyboard"] <= 0
             ELSE /\ framePc' = "keyboard"
                  /\ queue'["keyboard"] = Tail(queue["keyboard"])
                  /\ Len(delivered'["keyboard"]) = Len(delivered["keyboard"]) + 1
                  /\ delivered'["keyboard"][Len(delivered'["keyboard"])].id =
                         Head(queue["keyboard"]).id]_vars

\* In one frame the mouse loop ended on a dropped head, with a mouse event
\* left in its channel, and the keyboard loop has sent the keyboard event
\* that was buffered.
C20_Witness ==
    /\ framePc = "keyboard"
    /\ receivers["mouse"] = {}
    /\ IdsOfClass(discarded, "mouse") # {}
    /\ queue["mouse"] # <<>>
    /\ receivers["keyboard"] # {}
    /\ Len(delivered["keyboard"]) = 1
    /\ frameLeft["keyboard"] = 0
    /\ queue["keyboard"] = <<>>

====
